---- MODULE Spec2Model ----
(***************************************************************************)
(* Model of worthe_signals: Complex<T> (src/src/complex.rs), Sinusoid<T>   *)
(* (src/src/sinusoid.rs) and the scalar capabilities they are generic over *)
(* (src/src/num_traits.rs).                                                *)
(*                                                                         *)
(* Two scalar instances are modelled.                                      *)
(*   "int"   : a two's complement integer, IntBits wide (i8, the narrowest *)
(*             integer the crate implements Pow for).  Overflow panics in  *)
(*             a debug build and wraps in a release build; division by     *)
(*             zero and MIN / -1 panic in both.                            *)
(*   "float" : a sign-magnitude binary float, modelled as the record       *)
(*             [sg, mag] with sg in {1, -1}.  Quantities are kept in       *)
(*             units of 1/Scale and rounded to nearest; angles are kept in *)
(*             units of pi/HalfTurn.  Zero is signed, as in IEEE 754, and  *)
(*             a result too small for the resolution underflows to a zero  *)
(*             that keeps its sign.                                        *)
(***************************************************************************)
EXTENDS Integers, Sequences, FiniteSets

(* ---------------------------------------------------------------------- *)
(* Scalars                                                                 *)
(* ---------------------------------------------------------------------- *)

\* resolution of the float model: one unit is 1/Scale
Scale == 1000
\* angle resolution of the float model: one unit is pi/HalfTurn (15 degrees)
HalfTurn == 12
\* width of the integer scalar and of the loop counter of sample_range
IntBits == 8
U16Bits == 16

RECURSIVE Pow2(_)
Pow2(n) == IF n = 0 THEN 1 ELSE 2 * Pow2(n - 1)

IntMin == -Pow2(IntBits - 1)
IntMax == Pow2(IntBits - 1) - 1
U16Max == Pow2(U16Bits) - 1

Abs(n) == IF n < 0 THEN -n ELSE n
Sgn(n) == IF n < 0 THEN -1 ELSE 1

\* outcome of an evaluation: a value, or a panic that unwinds the caller
Ok(v) == [tag |-> "Ok", v |-> v]
Panic(why) == [tag |-> "panic", v |-> why]
Bind(r, K(_)) == IF r.tag = "Ok" THEN K(r.v) ELSE r

\* ---- integer scalar ----
Wrap(n) == ((n - IntMin) % Pow2(IntBits)) + IntMin
InRange(n) == IntMin <= n /\ n <= IntMax

\* an arithmetic result under the build's overflow checks
IChecked(build, n) ==
    IF InRange(n) THEN Ok(n)
    ELSE IF build = "debug" THEN Panic("overflow") ELSE Ok(Wrap(n))

\* Rust's integer division truncates toward zero
TruncDiv(a, b) == Sgn(a) * Sgn(b) * (Abs(a) \div Abs(b))

\* mutant: a zero denominator is caught and answered with 0
IDiv_guarded(a, b) ==
    IF b = 0 THEN Ok(0)
    ELSE IF a = IntMin /\ b = -1 THEN Panic("overflow")
    ELSE Ok(TruncDiv(a, b))

IDiv(a, b) ==
    IF b = 0 THEN Panic("divide by zero")
    ELSE IF a = IntMin /\ b = -1 THEN Panic("overflow")
    ELSE Ok(TruncDiv(a, b))

\* ---- float scalar ----
F(sg, mag) == [sg |-> sg, mag |-> mag]
\* the float nearest to the signed quantity n; an exact zero is +0
FromVal(n) == F(Sgn(n), Abs(n))
Val(x) == x.sg * x.mag
\* the float of a whole number (a literal such as 3.0); the argument is at
\* most U16Max, so the product stays far below 2^31
Lit(n) == FromVal(n * Scale)

\* round to nearest, half away from zero, of a / b for a >= 0, b > 0
RoundDiv(a, b) == (2 * a + b) \div (2 * b)

\* IEEE addition: x + (-x) is +0, (-0) + (-0) is -0
FAdd(a, b) ==
    LET s == Val(a) + Val(b)
    IN  IF s # 0 THEN FromVal(s)
        ELSE IF a.sg = -1 /\ b.sg = -1 THEN F(-1, 0) ELSE F(1, 0)

FNeg(a) == F(-a.sg, a.mag)
FSub(a, b) == FAdd(a, FNeg(b))
FMul(a, b) == F(a.sg * b.sg, RoundDiv(a.mag * b.mag, Scale))

\* a / b for b # 0; the quotient is split so that no intermediate leaves
\* the 32-bit range of TLC's integers
FDiv(a, b) ==
    LET q == a.mag \div b.mag
        r == a.mag % b.mag
    IN  F(a.sg * b.sg, q * Scale + RoundDiv(r * Scale, b.mag))

\* Rust's % on floats is fmod: the result keeps the sign of the dividend
FRem(a, b) == F(a.sg, a.mag % b.mag)

\* float comparison: the two zeros are equal
FEq(a, b) == Val(a) = Val(b)
FGe(a, b) == Val(a) >= Val(b)

\* floor of the square root, by bisection
RECURSIVE ISqrtIter(_, _, _)
ISqrtIter(n, lo, hi) ==
    IF hi - lo <= 1 THEN lo
    ELSE LET mid == (lo + hi) \div 2
         IN  IF mid * mid <= n THEN ISqrtIter(n, mid, hi)
             ELSE ISqrtIter(n, lo, mid)
ISqrt(n) == ISqrtIter(n, 0, 46341)

\* f32/f64 sqrt, correctly rounded: sqrt(mag/Scale) in units of 1/Scale.
\* The argument is a sum of squares here, so it is never negative.
FSqrt(x) ==
    LET n == x.mag * Scale
        r == ISqrt(n)
    IN  F(x.sg, IF n - r * r > r THEN r + 1 ELSE r)

\* powi(n) for n >= 1, by repeated multiplication
RECURSIVE FPowi(_, _)
FPowi(x, n) == IF n = 1 THEN x ELSE FMul(x, FPowi(x, n - 1))

\* cos of 0, 15, ..., 90 degrees, in units of 1/Scale
CosTab == <<1000, 966, 866, 707, 500, 259, 0>>

\* cos and sin of k * pi/HalfTurn for k in 0..2*HalfTurn, as signed integers
DirCos(k) ==
    LET j == IF k > HalfTurn THEN 2 * HalfTurn - k ELSE k
    IN  IF 2 * j <= HalfTurn THEN CosTab[j + 1]
        ELSE -CosTab[HalfTurn - j + 1]
DirSin(k) == DirCos((k + 3 * (HalfTurn \div 2)) % (2 * HalfTurn))

\* The float constant for pi is not pi: f32's PI is above it, f64's below,
\* and so is every multiple the program forms from it.  Where the exact
\* function is zero the float result is a residue below the resolution of
\* this model: a zero with the sign the function has just above (f32) or
\* just below (f64) the angle.
PiErr(scalar) == IF scalar = "f32" THEN 1 ELSE -1

\* cos and sin of the magnitude of an angle
CosMag(scalar, m) ==
    LET k == m % (2 * HalfTurn)
    IN  IF DirCos(k) # 0 THEN FromVal(DirCos(k))
        ELSE IF k < HalfTurn THEN F(-PiErr(scalar), 0)
        ELSE F(PiErr(scalar), 0)
SinMag(scalar, m) ==
    LET k == m % (2 * HalfTurn)
    IN  IF DirSin(k) # 0 THEN FromVal(DirSin(k))
        ELSE IF m = 0 THEN F(1, 0)
        ELSE IF k = HalfTurn THEN F(-PiErr(scalar), 0)
        ELSE F(PiErr(scalar), 0)

\* cos is even, sin is odd (sin(-0) is -0)
FCos(scalar, a) == CosMag(scalar, a.mag)
FSin(scalar, a) == LET s == SinMag(scalar, a.mag) IN F(a.sg * s.sg, s.mag)

\* the grid angle in 0..HalfTurn nearest to the direction of (x, y), y > 0:
\* the one whose unit vector has the largest projection on (x, y)
Proj(x, y, k) == x * DirCos(k) + y * DirSin(k)
NearestAngle(x, y) ==
    CHOOSE k \in 0..HalfTurn :
        /\ \A j \in 0..HalfTurn : Proj(x, y, k) >= Proj(x, y, j)
        /\ \A j \in 0..(k - 1) : Proj(x, y, k) > Proj(x, y, j)

\* y.atan2(x), with the IEEE 754 results on the axes and at signed zeros;
\* the result carries the sign of y and its magnitude is at most pi
FAtan2(y, x) ==
    IF y.mag = 0 THEN (IF x.sg = 1 THEN F(y.sg, 0) ELSE F(y.sg, HalfTurn))
    ELSE IF x.mag = 0 THEN F(y.sg, HalfTurn \div 2)
    ELSE F(y.sg, NearestAngle(Val(x), y.mag))

(* ---------------------------------------------------------------------- *)
(* State                                                                   *)
(* ---------------------------------------------------------------------- *)

VARIABLES
    build,    \* "debug" (overflow checks on) or "release" (wrapping)
    scalar,   \* the float type T of the run: "f32" or "f64"
    in,       \* the caller's arguments, fixed for the run
    op,       \* the operations applied so far
    acc       \* the outcome of the last operation

vars == <<build, scalar, in, op, acc>>

\* ---- the operators of T, by scalar instance ----
TAdd(T, a, b) == IF T = "int" THEN IChecked(build, a + b) ELSE Ok(FAdd(a, b))
TSub(T, a, b) == IF T = "int" THEN IChecked(build, a - b) ELSE Ok(FSub(a, b))
TMul(T, a, b) == IF T = "int" THEN IChecked(build, a * b) ELSE Ok(FMul(a, b))
TNeg(T, a) == IF T = "int" THEN IChecked(build, -a) ELSE Ok(FNeg(a))
TDiv(T, a, b) == IF T = "int" THEN IDiv(a, b) ELSE Ok(FDiv(a, b))

(* ---------------------------------------------------------------------- *)
(* Complex<T>                                                              *)
(* ---------------------------------------------------------------------- *)

Complex(real, imag) == [real |-> real, imag |-> imag]

conjugate(T, c) ==
    Bind(TNeg(T, c.imag), LAMBDA ni : Ok(Complex(c.real, ni)))

\* mutant: the square root is forgotten
magnitude_no_sqrt(c) ==
    FAdd(FPowi(c.real, 2), FPowi(c.imag, 2))

magnitude(c) ==
    FSqrt(FAdd(FPowi(c.real, 2), FPowi(c.imag, 2)))

\* mutant: the arguments of atan2 are exchanged
angle_swapped(c) == FAtan2(c.real, c.imag)

angle(c) == FAtan2(c.imag, c.real)

\* mutant: cos and sin are exchanged
from_polar_swapped(r, theta) ==
    LET real == FMul(r, FSin(scalar, theta))
        imag == FMul(r, FCos(scalar, theta))
    IN  Complex(real, imag)

from_polar(r, theta) ==
    LET real == FMul(r, FCos(scalar, theta))
        imag == FMul(r, FSin(scalar, theta))
    IN  Complex(real, imag)

to_polar(c) == <<magnitude(c), angle(c)>>

add(T, self, other) ==
    Bind(TAdd(T, self.real, other.real), LAMBDA real :
    Bind(TAdd(T, self.imag, other.imag), LAMBDA imag :
    Ok(Complex(real, imag))))

\* mutant: the real part adds the product of the imaginary parts
mul_plus(T, self, other) ==
    Bind(TMul(T, self.real, other.real), LAMBDA rr :
    Bind(TMul(T, self.imag, other.imag), LAMBDA ii :
    Bind(TAdd(T, rr, ii), LAMBDA real :
    Bind(TMul(T, self.real, other.imag), LAMBDA ri :
    Bind(TMul(T, self.imag, other.real), LAMBDA ir :
    Bind(TAdd(T, ri, ir), LAMBDA imag :
    Ok(Complex(real, imag))))))))

mul(T, self, other) ==
    Bind(TMul(T, self.real, other.real), LAMBDA rr :
    Bind(TMul(T, self.imag, other.imag), LAMBDA ii :
    Bind(TSub(T, rr, ii), LAMBDA real :
    Bind(TMul(T, self.real, other.imag), LAMBDA ri :
    Bind(TMul(T, self.imag, other.real), LAMBDA ir :
    Bind(TAdd(T, ri, ir), LAMBDA imag :
    Ok(Complex(real, imag))))))))

\* mutant: numerator and denominator are multiplied by the denominator
\* itself instead of its conjugate
div_no_conjugate(T, self, other) ==
    Bind(mul(T, self, other), LAMBDA num :
    Bind(mul(T, other, other), LAMBDA dd :
    LET denom == dd.real IN
    Bind(TDiv(T, num.real, denom), LAMBDA real :
    Bind(TDiv(T, num.imag, denom), LAMBDA imag :
    Ok(Complex(real, imag))))))

div(T, self, other) ==
    Bind(conjugate(T, other), LAMBDA other_conj :
    Bind(mul(T, self, other_conj), LAMBDA num :
    Bind(mul(T, other, other_conj), LAMBDA dd :
    LET denom == dd.real IN
    Bind(TDiv(T, num.real, denom), LAMBDA real :
    Bind(TDiv(T, num.imag, denom), LAMBDA imag :
    Ok(Complex(real, imag)))))))

(* ---------------------------------------------------------------------- *)
(* Sinusoid<T>                                                             *)
(* ---------------------------------------------------------------------- *)

Sinusoid(amplitude, frequency, phase) ==
    [amplitude |-> amplitude, frequency |-> frequency, phase |-> phase]

Err(e) == [tag |-> "Err", v |-> e]

period(self) == FDiv(Lit(1), self.frequency)

to_phasor(self) == from_polar(self.amplitude, self.phase)

\* mutant: the frequency test is inverted
Sinusoid_add_inverted(self, other) ==
    IF FEq(self.frequency, other.frequency)
    THEN Err("DifferentFrequency")
    ELSE LET frequency == self.frequency
             self_phasor == to_phasor(self)
             other_phasor == to_phasor(other)
             combined == add("float", self_phasor, other_phasor).v
             polar == to_polar(combined)
         IN  Ok(Sinusoid(polar[1], frequency, polar[2]))

\* mutant: a zero-amplitude operand is skipped and self returned as it is
Sinusoid_add_shortcut(self, other) ==
    IF ~FEq(self.frequency, other.frequency)
    THEN Err("DifferentFrequency")
    ELSE IF other.amplitude.mag = 0 THEN Ok(self)
    ELSE LET frequency == self.frequency
             self_phasor == to_phasor(self)
             other_phasor == to_phasor(other)
             combined == add("float", self_phasor, other_phasor).v
             polar == to_polar(combined)
         IN  Ok(Sinusoid(polar[1], frequency, polar[2]))

Sinusoid_add(self, other) ==
    IF ~FEq(self.frequency, other.frequency)
    THEN Err("DifferentFrequency")
    ELSE LET frequency == self.frequency
             self_phasor == to_phasor(self)
             other_phasor == to_phasor(other)
             combined == add("float", self_phasor, other_phasor).v
             polar == to_polar(combined)
         IN  Ok(Sinusoid(polar[1], frequency, polar[2]))

two_pi == F(1, 2 * HalfTurn)

radial_frequency(self) == FMul(two_pi, self.frequency)

sample(self, t) ==
    FMul(FCos(scalar, FAdd(FMul(radial_frequency(self),
                                FRem(t, period(self))),
                           self.phase)),
         self.amplitude)

\* the time of sample i
SampleTime(start, sample_rate, i) == FAdd(start, FDiv(Lit(i), sample_rate))

\* the loop of sample_range from counter value i on, up to its break
RECURSIVE SampleLoop(_, _, _, _, _, _)
SampleLoop(self, start, end, sample_rate, i, result) ==
    LET t == SampleTime(start, sample_rate, i)
    IN  IF FGe(t, end) THEN result
        ELSE SampleLoop(self, start, end, sample_rate, i + 1,
                        Append(result, sample(self, t)))

\* The counter i is a u16.  When no value of a u16 makes t >= end, the
\* increment of i = U16Max overflows: a debug build panics there, a release
\* build wraps i to 0 and the loop goes round again, for ever.
sample_range(self, start, end, sample_rate) ==
    IF \E i \in 0..U16Max : FGe(SampleTime(start, sample_rate, i), end)
    THEN Ok(SampleLoop(self, start, end, sample_rate, 0, <<>>))
    ELSE IF build = "debug" THEN Panic("overflow")
    ELSE [tag |-> "diverge", v |-> "loop"]

(* ---------------------------------------------------------------------- *)
(* Arguments                                                               *)
(* ---------------------------------------------------------------------- *)

\* amplitudes and radii are the whole numbers -MaxAmp..MaxAmp
MaxAmp == 4
\* integer components are -MaxInt..MaxInt and the two ends of the range
MaxInt == 3
\* sample_range starts at 0..MaxStart and ends at 1..MaxStart + 1
MaxStart == 2

Amplitudes == {Lit(k) : k \in -MaxAmp..MaxAmp}
Frequencies == {Lit(1), Lit(2)}
\* 0, pi/4, pi/2, pi, 3pi/2 and their negatives (-0 included)
Phases == {F(sg, m) : sg \in {1, -1}, m \in {0, 3, 6, 12, 18}}
\* every grid angle of [-pi, pi]
Angles == {F(sg, m) : sg \in {1, -1}, m \in 0..HalfTurn}
\* radii: 0, 1/2, 1, 3/2, ...
Radii == {F(1, k * (Scale \div 2)) : k \in 0..(2 * MaxAmp)}

IntVals == (-MaxInt..MaxInt) \cup {IntMin, IntMax}
Complexes == {Complex(re, im) : re \in IntVals, im \in IntVals}

\* a long range: more samples than a u16 counts, at every rate
LongEnd == Lit(U16Max + MaxStart + 1)
Starts == {Lit(k) : k \in 0..MaxStart}
Ends == {Lit(k) : k \in 1..(MaxStart + 1)} \cup {LongEnd}
Rates == {Lit(1), Lit(2), Lit(4)}
\* the sine of the doc tests and a sinusoid of twice the size and frequency
Sampled == {Sinusoid(Lit(1), Lit(1), F(-1, HalfTurn \div 2)),
            Sinusoid(Lit(2), Lit(2), F(1, 0))}

Init ==
    /\ build \in {"debug", "release"}
    /\ scalar \in {"f32", "f64"}
    /\ op = <<>>
    /\ acc = Ok("new")
    /\ \/ \E a1 \in Amplitudes, a2 \in Amplitudes,
             f1 \in Frequencies, f2 \in Frequencies,
             p1 \in Phases, p2 \in Phases :
             in = [kind |-> "sinusoids", self |-> Sinusoid(a1, f1, p1),
                   other |-> Sinusoid(a2, f2, p2)]
       \/ \E r \in Radii, theta \in Angles :
             in = [kind |-> "polar", r |-> r, theta |-> theta]
       \/ \E c1 \in Complexes, c2 \in Complexes :
             in = [kind |-> "complexes", c1 |-> c1, c2 |-> c2]
       \/ \E s \in Sampled, start \in Starts, end \in Ends,
             sample_rate \in Rates :
             in = [kind |-> "range", self |-> s, start |-> start,
                   end |-> end, sample_rate |-> sample_rate]

(* ---------------------------------------------------------------------- *)
(* Operations                                                              *)
(* ---------------------------------------------------------------------- *)

CallSinusoidAdd ==
    /\ in.kind = "sinusoids" /\ op = <<>>
    /\ acc' = Sinusoid_add(in.self, in.other)
    /\ op' = <<"Sinusoid::add">>
    /\ UNCHANGED <<build, scalar, in>>

CallFromPolar ==
    /\ in.kind = "polar" /\ op = <<>>
    /\ acc' = Ok(from_polar(in.r, in.theta))
    /\ op' = <<"from_polar">>
    /\ UNCHANGED <<build, scalar, in>>

CallToPolar ==
    /\ op = <<"from_polar">>
    /\ acc' = Ok(to_polar(acc.v))
    /\ op' = Append(op, "to_polar")
    /\ UNCHANGED <<build, scalar, in>>

CallMul ==
    /\ in.kind = "complexes" /\ op = <<>>
    /\ acc' = mul("int", in.c1, in.c2)
    /\ op' = <<"mul">>
    /\ UNCHANGED <<build, scalar, in>>

\* in.c1 / in.c2, or (in.c1 * in.c2) / in.c2 once the product is there
CallDiv ==
    /\ in.kind = "complexes"
    /\ \/ op = <<>> /\ acc' = div("int", in.c1, in.c2)
       \/ op = <<"mul">> /\ acc.tag = "Ok" /\ acc' = div("int", acc.v, in.c2)
    /\ op' = Append(op, "div")
    /\ UNCHANGED <<build, scalar, in>>

CallSampleRange ==
    /\ in.kind = "range" /\ op = <<>>
    /\ acc' = sample_range(in.self, in.start, in.end, in.sample_rate)
    /\ op' = <<"sample_range">>
    /\ UNCHANGED <<build, scalar, in>>

Next ==
    \/ CallSinusoidAdd
    \/ CallFromPolar
    \/ CallToPolar
    \/ CallMul
    \/ CallDiv
    \/ CallSampleRange

Spec == Init /\ [][Next]_vars

(* ---------------------------------------------------------------------- *)
(* Properties                                                              *)
(* ---------------------------------------------------------------------- *)

\* equal up to the rounding of the scalar: within two units of 1/Scale
Close(a, b) == Abs(Val(a) - Val(b)) <= 2

\* the last operation returned the value v / panicked with the message why
Returned(v) == acc.tag = "Ok" /\ acc.v = v
Panicked(why) == acc.tag = "panic" /\ acc.v = why
\* two outcomes are the same: both the same value or both the same panic
SameOutcome(r1, r2) == r1.tag = r2.tag /\ r1.v = r2.v

Added == in.kind = "sinusoids" /\ op = <<"Sinusoid::add">>
SameFrequency == FEq(in.self.frequency, in.other.frequency)

\* C1: Sinusoid::add returns Err(DifferentFrequency) exactly when the two
\* frequencies differ under the scalar's equality; when they are equal it
\* returns Ok and the result carries the shared frequency.
C1_AddChecksFrequency ==
    Added =>
        /\ acc.tag \in {"Ok", "Err"}
        /\ acc.tag = "Err" <=> ~SameFrequency
        /\ acc.tag = "Err" => acc.v = "DifferentFrequency"
        /\ acc.tag = "Ok" =>
              /\ acc.v.frequency = in.self.frequency
              /\ FEq(acc.v.frequency, in.other.frequency)

C1_Witness ==
    /\ Added /\ acc.tag = "Err" /\ acc.v = "DifferentFrequency"
    /\ in.self.frequency = Lit(1) /\ in.other.frequency = Lit(2)

\* the components of the sum of the two phasors, computed from the
\* arguments in exact integer arithmetic and rounded once to 1/Scale
SignedCos(a) == DirCos(a.mag % (2 * HalfTurn))
SignedSin(a) == a.sg * DirSin(a.mag % (2 * HalfTurn))
RoundS(n) == Sgn(n) * RoundDiv(Abs(n), Scale)
PhasorSumX ==
    RoundS(Val(in.self.amplitude) * SignedCos(in.self.phase)
           + Val(in.other.amplitude) * SignedCos(in.other.phase))
PhasorSumY ==
    RoundS(Val(in.self.amplitude) * SignedSin(in.self.phase)
           + Val(in.other.amplitude) * SignedSin(in.other.phase))

\* the direction of the grid angle a is within half a grid step (7.5
\* degrees, whose tangent is 0.132) of the direction of the vector (x, y)
PointsAlong(a, x, y) ==
    LET dot == x * SignedCos(a) + y * SignedSin(a)
        cross == x * SignedSin(a) - y * SignedCos(a)
    IN  /\ dot > 0
        /\ Abs(cross) <= (132 * dot) \div Scale + 2 * Scale

\* C2: for equal frequencies the amplitude returned is the magnitude, and
\* the phase returned the atan2 angle (to the angle resolution), of the sum
\* (A1 cos p1 + A2 cos p2, A1 sin p1 + A2 sin p2) of the two phasors.
C2_AddIsPhasorSum ==
    (Added /\ SameFrequency) =>
        /\ acc.tag = "Ok"
        /\ LET amp == Val(acc.v.amplitude)
               n2 == PhasorSumX * PhasorSumX + PhasorSumY * PhasorSumY
           IN  /\ amp >= 0
               /\ (amp + 2) * (amp + 2) >= n2
               /\ amp > 2 => (amp - 2) * (amp - 2) <= n2
               /\ n2 > 0 => PointsAlong(acc.v.phase, PhasorSumX, PhasorSumY)

\* (-3, 1, 0) + (4, 1, -pi/2) is the 3-4-5 triangle: amplitude 5, and the
\* phase of the point (-3, -4), which lies in the third quadrant (-126.9
\* degrees, -120 on the grid)
C2_Witness ==
    /\ Added
    /\ in.self = Sinusoid(Lit(-3), Lit(1), F(1, 0))
    /\ in.other = Sinusoid(Lit(4), Lit(1), F(-1, HalfTurn \div 2))
    /\ Returned(Sinusoid(Lit(5), Lit(1), F(-1, 8)))

AddedZero == Added /\ SameFrequency /\ in.other.amplitude.mag = 0

\* C3 as stated: adding a zero-amplitude sinusoid of the same frequency
\* succeeds and returns the amplitude of the other operand.
C3_Original ==
    AddedZero =>
        acc.tag = "Ok" /\ Close(acc.v.amplitude, in.self.amplitude)

\* C3 as amended: adding a zero-amplitude sinusoid of the same frequency
\* succeeds and returns the absolute value of the other operand's
\* amplitude.
C3_AddZeroKeepsSize ==
    AddedZero =>
        /\ acc.tag = "Ok"
        /\ Close(acc.v.amplitude, F(1, in.self.amplitude.mag))

C3_Witness ==
    /\ AddedZero
    /\ in.self.amplitude = Lit(-3) /\ in.self.phase = F(1, 3)
    /\ in.other.phase = F(-1, HalfTurn)
    /\ acc.tag = "Ok" /\ acc.v.amplitude = Lit(3)

Ranged == in.kind = "range" /\ op = <<"sample_range">>
WellFormed == Val(in.sample_rate) > 0 /\ Val(in.end) > Val(in.start)

\* ceil((end - start) * sample_rate); start and end are whole numbers
SampleCount ==
    LET whole == (Val(in.end) - Val(in.start)) \div Scale
        n == whole * Val(in.sample_rate)
    IN  (n + Scale - 1) \div Scale

\* C4: for sample_rate > 0 and end > start, sample_range returns exactly
\* ceil((end - start) * sample_rate) samples, and element i (from 0) is
\* sample(start + i / sample_rate).
C4_Original ==
    (Ranged /\ WellFormed) =>
        /\ acc.tag = "Ok"
        /\ Len(acc.v) = SampleCount
        /\ \A i \in 1..Len(acc.v) :
              acc.v[i] = sample(in.self, FAdd(in.start,
                                FDiv(Lit(i - 1), in.sample_rate)))

\* C5: for sample_rate > 0 and end > start, however many samples are
\* asked for, sample_range breaks out of its loop and returns normally.
C5_Original ==
    (Ranged /\ WellFormed) => acc.tag = "Ok"

\* every intermediate of (c1 * c2) / c2 is inside the scalar's range
Fits(c1, c2) ==
    LET a == c1.real
        b == c1.imag
        c == c2.real
        d == c2.imag
        pr == a * c - b * d
        pi == a * d + b * c
    IN  \A n \in {a * c, b * d, pr, a * d, b * c, pi, -d,
                   pr * c, pi * (-d), pr * c - pi * (-d),
                   pr * (-d), pi * c, pr * (-d) + pi * c,
                   c * c, d * (-d), c * c - d * (-d),
                   c * (-d), d * c, c * (-d) + d * c} : InRange(n)

MulDivided == in.kind = "complexes" /\ op = <<"mul", "div">>
Zero == Complex(0, 0)

\* C6: for integer c1 and c2 # 0 with every intermediate in range,
\* (c1 * c2) / c2 = c1 exactly.
C6_MulThenDivIsExact ==
    (MulDivided /\ in.c2 # Zero /\ Fits(in.c1, in.c2)) =>
        Returned(in.c1)

C6_Witness ==
    /\ MulDivided /\ Fits(in.c1, in.c2)
    /\ in.c1 = Complex(3, -2) /\ in.c2 = Complex(2, 3)
    /\ Returned(Complex(3, -2))

RoundTripped == in.kind = "polar" /\ op = <<"from_polar", "to_polar">>
\* theta in (-pi, pi]
InHalfOpenTurn(a) == -HalfTurn < Val(a) /\ Val(a) <= HalfTurn

\* C7 as stated: for r >= 0 and theta in (-pi, pi], to_polar of
\* from_polar(r, theta) is (r, theta) up to rounding, r = 0 and theta = pi
\* included.
C7_Original ==
    (RoundTripped /\ InHalfOpenTurn(in.theta)) =>
        /\ Close(acc.v[1], in.r)
        /\ FEq(acc.v[2], in.theta)

\* C7 as amended: for r >= 0 and theta in (-pi, pi] the magnitude returned
\* is r up to rounding; for r > 0 the angle returned is theta, except that
\* theta = pi comes back as pi or as -pi; for r = 0 the angle returned is
\* 0, pi or -pi whatever theta is.
C7_PolarRoundTrip ==
    (RoundTripped /\ InHalfOpenTurn(in.theta)) =>
        /\ Close(acc.v[1], in.r)
        /\ (in.r.mag > 0 /\ in.theta.mag < HalfTurn) =>
              FEq(acc.v[2], in.theta)
        /\ (in.r.mag > 0 /\ in.theta.mag = HalfTurn) =>
              acc.v[2].mag = HalfTurn
        /\ in.r.mag = 0 => acc.v[2].mag \in {0, HalfTurn}

C7_Witness ==
    /\ RoundTripped
    /\ in.r = F(1, 2500) /\ in.theta = F(-1, 5)
    /\ Returned(<<F(1, 2500), F(-1, 5)>>)

Multiplied == in.kind = "complexes" /\ op = <<"mul">>

\* C8: Complex(a,b) * Complex(c,d) is Complex(a*c - b*d, a*d + b*c) in the
\* scalar's arithmetic (a value that needs no overflow is never lost, and
\* a wrapped one is the formula modulo 2^IntBits); so c * (1,0) = c,
\* c * (0,0) = (0,0) and c * (2,0) = c + c.
C8_MulFormula ==
    Multiplied =>
        LET a == in.c1.real
            b == in.c1.imag
            c == in.c2.real
            d == in.c2.imag
        IN  /\ acc.tag = "Ok" =>
                  acc.v = Complex(Wrap(a * c - b * d), Wrap(a * d + b * c))
            /\ (\A n \in {a * c, b * d, a * c - b * d,
                           a * d, b * c, a * d + b * c} : InRange(n)) =>
                  Returned(Complex(a * c - b * d, a * d + b * c))
            /\ in.c2 = Complex(1, 0) => Returned(in.c1)
            /\ in.c2 = Zero => Returned(Zero)
            /\ in.c2 = Complex(2, 0) =>
                  SameOutcome(acc, add("int", in.c1, in.c1))

C8_Witness ==
    /\ Multiplied
    /\ in.c1 = Complex(3, -2) /\ in.c2 = Complex(2, 3)
    /\ Returned(Complex(12, 5))

Divided == in.kind = "complexes" /\ op = <<"div">>

C10_Original ==
    (Added /\ acc.tag = "Ok") =>
        /\ Val(acc.v.amplitude) >= 0
        /\ InHalfOpenTurn(acc.v.phase)

\* C10 as amended: a successful Sinusoid::add returns an amplitude >= 0
\* and a phase in [-pi, pi].
C10_AddNormalises ==
    (Added /\ acc.tag = "Ok") =>
        /\ Val(acc.v.amplitude) >= 0
        /\ -HalfTurn <= Val(acc.v.phase) /\ Val(acc.v.phase) <= HalfTurn

\* a negative amplitude comes back positive, with the phase turned by pi
C10_Witness ==
    /\ Added
    /\ in.self = Sinusoid(Lit(-2), Lit(1), F(1, 3))
    /\ in.other = Sinusoid(Lit(-1), Lit(1), F(1, 3))
    /\ Returned(Sinusoid(Lit(3), Lit(1), F(-1, 9)))

====
